---- MODULE Spec2Model ----
(***************************************************************************)
(* Request-to-view pipeline of the auth0-frontend admin console.           *)
(*                                                                         *)
(* The modular handlers of src/routes/ are modelled step by step: one      *)
(* action for the synchronous prefix of a handler (parse, validate, build  *)
(* the upstream request) and one action for every upstream call the        *)
(* handler awaits.  The upstream identity API is a black box whose calls   *)
(* each succeed or fail; the only upstream state kept is the user record   *)
(* the handlers read and write (existence and the blocked flag).           *)
(* A body that axum's Form/Query extractor cannot parse is rejected before *)
(* the handler runs and is not modelled; Template::render may fail, which  *)
(* render turns into AppError::Template.  Spec serves requests one after   *)
(* another; SpecToggle interleaves two toggle_block requests at their      *)
(* awaits; SpecPair answers a request with a modular handler and then with *)
(* the monolithic handler of main.rs; SpecHelpers applies the functions of *)
(* helpers.rs to drawn inputs.                                             *)
(*                                                                         *)
(* Data encodings                                                          *)
(*   String      a tuple of one-character strings, "" is << >>             *)
(*   Option<T>   a tuple of length at most one: None is << >>, Some(v) is  *)
(*               << v >>                                                   *)
(*   Vec<User>   the number of records (the views only count rows)         *)
(***************************************************************************)
EXTENDS Integers, Sequences, FiniteSets, TLC

VARIABLES
    store,   \* upstream user records, by user id
    req,     \* the in-flight request of every request slot
    arg,     \* arguments of a call of a helpers.rs function
    out      \* its return value

vars == <<store, req, arg, out>>

----------------------------------------------------------------------------
(* Bounds *)

MaxFilled == 3       \* fields present in a submitted update form
MaxItems == 12       \* item counts given to total_pages
MaxPerPage == 6      \* page sizes given to total_pages
MaxPage == 1         \* requested page numbers

(* Program constants *)

UsersPerPage == 20
LogsPerPage == 50
PasswordMin == 8
ConnectionMin == 1

----------------------------------------------------------------------------
(* Option<T> *)

None == << >>
Some(v) == << v >>
is_some(o) == Len(o) = 1
unwrap_or(o, d) == IF is_some(o) THEN o[1] ELSE d
unwrap_or_default(o) == unwrap_or(o, << >>)

(* Strings *)

is_empty(s) == Len(s) = 0

\* Option::filter(|s| !s.is_empty())
filter_non_empty(o) ==
    IF is_some(o) /\ ~is_empty(o[1]) THEN o ELSE None

\* format!("{} {}", given, family)
format_name(given, family) == given \o << " " >> \o family

----------------------------------------------------------------------------
(* Request headers.  A header value is its raw text and whether all of    *)
(* its bytes are visible ASCII (HeaderValue::to_str fails otherwise).      *)

HeaderValue(raw, visible) == [raw |-> raw, visible |-> visible]

HxRequestValues == {HeaderValue("true", TRUE), HeaderValue("", TRUE)}

HxTargetValues ==
    { HeaderValue("users-table", TRUE),
      HeaderValue("other", TRUE),
      HeaderValue("users-table\\377", FALSE) }

HeaderMaps ==
    [ hx_request : {None} \cup {Some(v) : v \in HxRequestValues},
      hx_target  : {None} \cup {Some(v) : v \in HxTargetValues} ]

NoHeaders == [hx_request |-> None, hx_target |-> None]

Regions == {"users-table", "other"}

\* HeaderValue::to_str
to_str(v) == IF v.visible THEN Some(v.raw) ELSE None

is_htmx_request(headers) == is_some(headers.hx_request)

htmx_target_is_no_match(headers, target) == is_some(headers.hx_target)

htmx_target_is(headers, target) ==
    LET got == headers.hx_target
        str == IF is_some(got) THEN to_str(got[1]) ELSE None
    IN  IF is_some(str) THEN str[1] = target ELSE FALSE

----------------------------------------------------------------------------
(* Pagination *)

Max(a, b) == IF a >= b THEN a ELSE b

\* u32::div_ceil
div_ceil(n, d) ==
    LET q == n \div d
        r == n % d
    IN  IF r > 0 THEN q + 1 ELSE q

total_pages_floor(total_items, per_page) ==
    Max(total_items \div Max(per_page, 1), 1)

\* `total_items as u32` is the identity below 2^32, which covers every
\* integer TLC represents.
total_pages(total_items, per_page) ==
    LET pp == Max(per_page, 1)
    IN  Max(div_ceil(total_items, pp), 1)

----------------------------------------------------------------------------
(* Submitted text *)

T_a == << "a" >>
T_email == << "a", "@", "b" >>
T_short == << "p", "a", "s", "s", "w", "o", "r" >>
T_long == << "p", "a", "s", "s", "w", "o", "r", "d" >>
T_db == << "d", "b" >>
T_p == << "p" >>
T_url == << "h", ":", "p" >>
T_given == << "G" >>
T_family == << "F" >>
T_x == << "x" >>
T_alice == << "a", "l" >>

Alnum == {"a", "b", "d", "h", "l", "o", "p", "r", "s", "w", "x", "F", "G"}

AllIn(s, chars) == \A i \in 1..Len(s) : s[i] \in chars

Positions(s, c) == {i \in 1..Len(s) : s[i] = c}

LastOf(S) == CHOOSE i \in S : \A j \in S : j <= i
FirstOf(S) == CHOOSE i \in S : \A j \in S : i <= j

\* validator: email rule.  The value splits at its last '@' into a
\* non-empty user part and a non-empty domain part of permitted characters.
validate_email(s) ==
    /\ ~is_empty(s)
    /\ Positions(s, "@") # {}
    /\ LET at == LastOf(Positions(s, "@"))
           user == SubSeq(s, 1, at - 1)
           domain == SubSeq(s, at + 1, Len(s))
       IN  /\ ~is_empty(user)
           /\ AllIn(user, Alnum \cup {"."})
           /\ ~is_empty(domain)
           /\ AllIn(domain, Alnum \cup {"."})

\* validator: length(min = n) counts characters
validate_length(s, min) == Len(s) >= min

\* validator: url rule (Url::parse succeeds): an absolute URL starts with a
\* scheme, letters followed by ':'.
validate_url(s) ==
    /\ Positions(s, ":") # {}
    /\ LET colon == FirstOf(Positions(s, ":"))
       IN  /\ colon > 1
           /\ AllIn(SubSeq(s, 1, colon - 1), Alnum)

\* a rule on an Option field is skipped when the field is None
validate_option_email(o) == IF is_some(o) THEN validate_email(o[1]) ELSE TRUE
validate_option_url(o) == IF is_some(o) THEN validate_url(o[1]) ELSE TRUE
validate_option_length(o, min) ==
    IF is_some(o) THEN validate_length(o[1], min) ELSE TRUE

Violation(ok, field, message) ==
    IF ok THEN {} ELSE {[field |-> field, message |-> message]}

----------------------------------------------------------------------------
(* FormErrors *)

FormErrors_new == [fields |-> {}, base |-> << >>]
FormErrors_from(violations) == [fields |-> violations, base |-> << >>]
FormErrors_is_empty(e) == e.fields = {} /\ e.base = << >>
add_base(e, message) == [e EXCEPT !.base = Append(@, message)]

----------------------------------------------------------------------------
(* CreateForm *)

OptText == {None, Some(<< >>), Some(T_x)}

CreateForms ==
    [ email       : {<< >>, T_a, T_email},
      password    : {T_short, T_long},
      connection  : {<< >>, T_db},
      username    : OptText,
      given_name  : {None, Some(<< >>), Some(T_given)},
      family_name : {None, Some(<< >>), Some(T_family)},
      verify_email : {None, Some(<< >>), Some(T_x)} ]

\* CreateForm::default()
CreateForm_default ==
    [ email |-> << >>, password |-> << >>, connection |-> << >>,
      username |-> None, given_name |-> None, family_name |-> None,
      verify_email |-> None ]

CreateForm_validate(form) ==
    Violation(validate_email(form.email), "email",
              "Must be a valid email address")
    \cup Violation(validate_length(form.password, PasswordMin), "password",
                   "Password must be at least 8 characters")
    \cup Violation(validate_length(form.connection, ConnectionMin),
                   "connection", "Connection is required")

\* the name match of create
create_name(form) ==
    LET given == form.given_name
        family == form.family_name
    IN  IF is_some(given) /\ is_some(family)
        THEN Some(format_name(given[1], family[1]))
        ELSE IF is_some(given) THEN Some(given[1])
        ELSE IF is_some(family) THEN Some(family[1])
        ELSE None

CreateUserRequest(form) ==
    [ kind        |-> "create",
      connection  |-> form.connection,
      email       |-> Some(form.email),
      password    |-> Some(form.password),
      username    |-> filter_non_empty(form.username),
      given_name  |-> filter_non_empty(form.given_name),
      family_name |-> filter_non_empty(form.family_name),
      name        |-> create_name(form),
      verify_email |-> Some(is_some(form.verify_email)) ]

----------------------------------------------------------------------------
(* UpdateForm *)

UpdateFormFields ==
    {"email", "username", "given_name", "family_name", "nickname",
     "phone_number", "picture", "password"}

Filled(form) == Cardinality({f \in UpdateFormFields : is_some(form[f])})

UpdateForms ==
    { form \in
        [ email        : {None, Some(<< >>), Some(T_a), Some(T_email)},
          username     : OptText,
          given_name   : {None, Some(<< >>), Some(T_given)},
          family_name  : {None, Some(<< >>), Some(T_family)},
          nickname     : OptText,
          phone_number : OptText,
          picture      : {None, Some(<< >>), Some(T_p), Some(T_url)},
          password     : {None, Some(<< >>), Some(T_short), Some(T_long)} ] :
        Filled(form) <= MaxFilled }

UpdateForm_none ==
    [ email |-> None, username |-> None, given_name |-> None,
      family_name |-> None, nickname |-> None, phone_number |-> None,
      picture |-> None, password |-> None ]

UpdateForm_validate(form) ==
    Violation(validate_option_email(form.email), "email",
              "Must be a valid email address")
    \cup Violation(validate_option_url(form.picture), "picture",
                   "Must be a valid URL")
    \cup Violation(validate_option_length(form.password, PasswordMin),
                   "password", "Password must be at least 8 characters")

\* the name match of update
update_name(form) ==
    LET given == form.given_name
        family == form.family_name
        has(o) == is_some(o) /\ ~is_empty(o[1])
    IN  IF has(given) /\ has(family)
        THEN Some(format_name(given[1], family[1]))
        ELSE IF has(given) THEN Some(given[1])
        ELSE IF has(family) THEN Some(family[1])
        ELSE None

UpdateUserRequest_default ==
    [ kind |-> "update", email |-> None, username |-> None,
      given_name |-> None, family_name |-> None, nickname |-> None,
      phone_number |-> None, picture |-> None, password |-> None,
      name |-> None, blocked |-> None ]

UpdateUserRequest(form) ==
    [ UpdateUserRequest_default EXCEPT
        !.email        = filter_non_empty(form.email),
        !.username     = filter_non_empty(form.username),
        !.given_name   = filter_non_empty(form.given_name),
        !.family_name  = filter_non_empty(form.family_name),
        !.nickname     = filter_non_empty(form.nickname),
        !.phone_number = filter_non_empty(form.phone_number),
        !.picture      = filter_non_empty(form.picture),
        !.password     = filter_non_empty(form.password),
        !.name         = update_name(form) ]

\* the request of toggle_block
ToggleRequest_blocks(user) ==
    [UpdateUserRequest_default EXCEPT !.blocked = Some(TRUE)]

ToggleRequest(user) ==
    LET currently_blocked == unwrap_or(user.blocked, FALSE)
    IN  [UpdateUserRequest_default EXCEPT !.blocked = Some(~currently_blocked)]

NoRequest == [kind |-> "none"]

----------------------------------------------------------------------------
(* Views and responses *)

NoView == [tmpl |-> "none"]

IndexTemplate == [tmpl |-> "index.html"]

ListTemplate(users, page, pages, search_query, connection, conns, form, errors) ==
    [ tmpl |-> "users/list.html", users |-> users, page |-> page,
      total_pages |-> pages, search_query |-> search_query,
      connection |-> connection, connections |-> conns,
      form |-> form, errors |-> errors ]

TableTemplate(users, page, pages) ==
    [ tmpl |-> "users/table.html", users |-> users, page |-> page,
      total_pages |-> pages ]

DetailTemplate(user, errors) ==
    [tmpl |-> "users/detail.html", user |-> user, errors |-> errors]

CreateFormTemplate(form, connections, errors) ==
    [ tmpl |-> "users/create_form.html", form |-> form,
      connections |-> connections, errors |-> errors ]

LogsTemplate(logs) == [tmpl |-> "users/logs.html", logs |-> logs]

LogsListTemplate(logs, page, pages, search_query) ==
    [ tmpl |-> "logs/list.html", logs |-> logs, page |-> page,
      total_pages |-> pages, search_query |-> search_query ]

LogsTableTemplate(logs, page, pages) ==
    [ tmpl |-> "logs/table.html", logs |-> logs, page |-> page,
      total_pages |-> pages ]

ConnectionsListTemplate(connections) ==
    [tmpl |-> "connections/list.html", connections |-> connections]

ConnectionsTableTemplate(connections) ==
    [tmpl |-> "connections/table.html", connections |-> connections]

ApplicationsListTemplate(applications) ==
    [tmpl |-> "applications/list.html", applications |-> applications]

ApplicationsTableTemplate(applications) ==
    [tmpl |-> "applications/table.html", applications |-> applications]

NoResp ==
    [status |-> 0, kind |-> "none", view |-> NoView, location |-> "",
     body |-> ""]

Html(view) == [NoResp EXCEPT !.status = 200, !.kind = "html", !.view = view]

HtmlText(body) ==
    [NoResp EXCEPT !.status = 200, !.kind = "html", !.body = body]

Redirect_to(location) ==
    [NoResp EXCEPT !.status = 303, !.kind = "redirect",
                   !.location = location]

\* AppError::into_response
into_response(error) ==
    CASE error = "Template" ->
           [NoResp EXCEPT !.status = 500, !.kind = "error",
                          !.body = "Template error"]
      [] error = "Auth0" ->
           [NoResp EXCEPT !.status = 502, !.kind = "error",
                          !.body = "Upstream error"]
      [] error = "NotFound" ->
           [NoResp EXCEPT !.status = 404, !.kind = "error",
                          !.body = "Not found"]

\* templates::render; `rendered` is whether Template::render succeeded
render(template, rendered) ==
    IF rendered THEN Html(template) ELSE into_response("Template")

----------------------------------------------------------------------------
(* The upstream identity API *)

UserIds == {"u1"}

Missing == [exists |-> FALSE, blocked |-> None]

UserRecords ==
    {Missing} \cup
    {[exists |-> TRUE, blocked |-> b] : b \in {None, Some(FALSE), Some(TRUE)}}

Ok(v) == [ok |-> TRUE, val |-> v]
Err(v) == [ok |-> FALSE, val |-> v]

\* users().get(id): fails when the record is missing or the call faults
users_get(id, fault) ==
    IF store[id].exists /\ ~fault THEN Ok(store[id]) ELSE Err(Missing)

\* whether users().update(id, request) / users().delete(id) succeeds
users_write_ok(id, fault) == store[id].exists /\ ~fault

\* the record after an applied update: absent request fields are kept
apply_update(record, request) ==
    IF is_some(request.blocked)
    THEN [record EXCEPT !.blocked = request.blocked]
    ELSE record

UsersListResults ==
    {Err(0)} \cup {Ok(n) : n \in {0, 1, UsersPerPage, UsersPerPage + 1}}

LogsListResults ==
    {Err(0)} \cup {Ok(n) : n \in {0, 1, LogsPerPage, LogsPerPage + 1}}

UserLogsResults == {Err(0), Ok(0), Ok(1)}

ConnectionResults == {Err(<< >>), Ok(<< T_db >>)}

ApplicationResults == {Err(0), Ok(0), Ok(1)}

----------------------------------------------------------------------------
(* Requests *)

Reqs == {1, 2}
SeqReqs == {1}

ListQueries ==
    [ page       : {None} \cup {Some(n) : n \in 0..MaxPage},
      q          : {None, Some(T_alice)},
      connection : {None, Some(T_db)} ]

NoQuery == [page |-> None, q |-> None, connection |-> None]

Idle ==
    [ pc |-> "idle", route |-> "none", id |-> "", headers |-> NoHeaders,
      query |-> NoQuery, cform |-> CreateForm_default,
      uform |-> UpdateForm_none, errors |-> FormErrors_new,
      request |-> NoRequest, users |-> 0, user |-> Missing,
      before |-> [id \in UserIds |-> Missing], applied |-> FALSE,
      calls |-> << >>, resp |-> NoResp ]

NoArg ==
    [fn |-> "none", n |-> 0, p |-> 0, headers |-> NoHeaders, target |-> ""]

NoOut == [set |-> FALSE, pages |-> 0, flag |-> FALSE]

Init ==
    /\ store \in [UserIds -> UserRecords]
    /\ req = [r \in Reqs |-> Idle]
    /\ arg = NoArg
    /\ out = NoOut

Step(r, q) == req' = [req EXCEPT ![r] = q]

Call(q, op, ok) == Append(q.calls, [op |-> op, ok |-> ok])

Respond(q, resp) == [q EXCEPT !.pc = "done", !.resp = resp]

----------------------------------------------------------------------------
(* routes/root.rs, routes/connections.rs, routes/applications.rs,         *)
(* routes/logs.rs                                                          *)

\* match result { Ok(v) => v, Err(e) => Vec::new() }, vectors as counts
or_empty(result) == IF result.ok THEN result.val ELSE 0

get_connection_names(result) == IF result.ok THEN result.val ELSE << >>

root_index(r) ==
    /\ req[r].pc = "idle"
    /\ \E rendered \in BOOLEAN :
         Step(r, Respond([Idle EXCEPT !.route = "root::index"],
                         render(IndexTemplate, rendered)))
    /\ UNCHANGED <<store, arg, out>>

connections_list_response(q, result, rendered) ==
    LET connections == Len(get_connection_names(result))
    IN  IF is_htmx_request(q.headers)
        THEN render(ConnectionsTableTemplate(connections), rendered)
        ELSE render(ConnectionsListTemplate(connections), rendered)

connections_list(r) ==
    /\ req[r].pc = "idle"
    /\ \E headers \in HeaderMaps :
         Step(r, [Idle EXCEPT !.route = "connections::list",
                              !.headers = headers,
                              !.pc = "connections::list/list"])
    /\ UNCHANGED <<store, arg, out>>

connections_list_return(r) ==
    /\ req[r].pc = "connections::list/list"
    /\ \E result \in ConnectionResults, rendered \in BOOLEAN :
         Step(r, Respond(
                [req[r] EXCEPT !.calls = Call(req[r], "connections.list",
                                              result.ok)],
                connections_list_response(req[r], result, rendered)))
    /\ UNCHANGED <<store, arg, out>>

applications_list_response(q, result, rendered) ==
    LET applications == or_empty(result)
    IN  IF is_htmx_request(q.headers)
        THEN render(ApplicationsTableTemplate(applications), rendered)
        ELSE render(ApplicationsListTemplate(applications), rendered)

applications_list(r) ==
    /\ req[r].pc = "idle"
    /\ \E headers \in HeaderMaps :
         Step(r, [Idle EXCEPT !.route = "applications::list",
                              !.headers = headers,
                              !.pc = "applications::list/list"])
    /\ UNCHANGED <<store, arg, out>>

applications_list_return(r) ==
    /\ req[r].pc = "applications::list/list"
    /\ \E result \in ApplicationResults, rendered \in BOOLEAN :
         Step(r, Respond(
                [req[r] EXCEPT !.calls = Call(req[r], "clients.list",
                                              result.ok)],
                applications_list_response(req[r], result, rendered)))
    /\ UNCHANGED <<store, arg, out>>

logs_list_response_propagate(q, result, rendered) ==
    IF result.ok
    THEN render(LogsListTemplate(result.val, unwrap_or(q.query.page, 0),
                                 total_pages(result.val, LogsPerPage),
                                 unwrap_or_default(q.query.q)), rendered)
    ELSE into_response("Auth0")

logs_list_response(q, result, rendered) ==
    LET page == unwrap_or(q.query.page, 0)
        per_page == LogsPerPage
        logs == or_empty(result)
        pages == total_pages(logs, per_page)
    IN  IF is_htmx_request(q.headers)
        THEN render(LogsTableTemplate(logs, page, pages), rendered)
        ELSE render(LogsListTemplate(logs, page, pages,
                                     unwrap_or_default(q.query.q)), rendered)

logs_list(r) ==
    /\ req[r].pc = "idle"
    /\ \E query \in ListQueries, headers \in HeaderMaps :
         /\ query.connection = None
         /\ Step(r, [Idle EXCEPT !.route = "logs::list", !.query = query,
                                 !.headers = headers,
                                 !.pc = "logs::list/list"])
    /\ UNCHANGED <<store, arg, out>>

logs_list_return(r) ==
    /\ req[r].pc = "logs::list/list"
    /\ \E result \in LogsListResults, rendered \in BOOLEAN :
         Step(r, Respond(
                [req[r] EXCEPT !.calls = Call(req[r], "logs.list", result.ok),
                               !.users = or_empty(result)],
                logs_list_response(req[r], result, rendered)))
    /\ UNCHANGED <<store, arg, out>>

----------------------------------------------------------------------------
(* routes/users.rs: list *)

users_list_response_counts_earlier_pages(q, connections, rendered) ==
    LET page == unwrap_or(q.query.page, 0)
        per_page == UsersPerPage
        pages == total_pages(page * per_page + q.users, per_page)
    IN  IF is_htmx_request(q.headers)
        THEN render(TableTemplate(q.users, page, pages), rendered)
        ELSE render(ListTemplate(q.users, page, pages,
                                 unwrap_or_default(q.query.q),
                                 unwrap_or_default(q.query.connection),
                                 connections, CreateForm_default,
                                 FormErrors_new), rendered)

users_list_response(q, connections, rendered) ==
    LET page == unwrap_or(q.query.page, 0)
        per_page == UsersPerPage
        pages == total_pages(q.users, per_page)
    IN  IF is_htmx_request(q.headers)
        THEN render(TableTemplate(q.users, page, pages), rendered)
        ELSE render(ListTemplate(q.users, page, pages,
                                 unwrap_or_default(q.query.q),
                                 unwrap_or_default(q.query.connection),
                                 connections, CreateForm_default,
                                 FormErrors_new), rendered)

users_list(r) ==
    /\ req[r].pc = "idle"
    /\ \E query \in ListQueries, headers \in HeaderMaps :
         Step(r, [Idle EXCEPT !.route = "users::list", !.query = query,
                              !.headers = headers,
                              !.pc = "users::list/list"])
    /\ UNCHANGED <<store, arg, out>>

users_list_users(r) ==
    /\ req[r].pc = "users::list/list"
    /\ \E result \in UsersListResults :
         Step(r, [req[r] EXCEPT !.calls = Call(req[r], "users.list", result.ok),
                                !.users = or_empty(result),
                                !.pc = "users::list/connections"])
    /\ UNCHANGED <<store, arg, out>>

users_list_connections(r) ==
    /\ req[r].pc = "users::list/connections"
    /\ \E result \in ConnectionResults, rendered \in BOOLEAN :
         Step(r, Respond(
                [req[r] EXCEPT !.calls = Call(req[r], "connections.list",
                                              result.ok)],
                users_list_response(req[r], get_connection_names(result),
                                    rendered)))
    /\ UNCHANGED <<store, arg, out>>

----------------------------------------------------------------------------
(* routes/users.rs: create *)

create_errors(form) == FormErrors_from(CreateForm_validate(form))

\* if !errors.is_empty() { ... return render(CreateFormTemplate ...) }
create_after_validate_always_calls(errors) == "users::create/create"

create_after_validate(errors) ==
    IF ~FormErrors_is_empty(errors)
    THEN "users::create/invalid"
    ELSE "users::create/create"

create_invalid_response(q, connections, rendered) ==
    render(CreateFormTemplate(q.cform, connections, q.errors), rendered)

create_ok_response(users, rendered) ==
    render(TableTemplate(users, 0, 1), rendered)

create_failed_errors == add_base(FormErrors_new, "Failed to create user")

create_failed_response(q, connections, rendered) ==
    LET form_snapshot == q.cform
    IN  render(CreateFormTemplate(form_snapshot, connections, q.errors),
               rendered)

\* match state.auth0.users().create(request).await { Ok(_) => .., Err(e) => .. }
create_after_create_retries(ok) ==
    IF ok THEN "users::create/list" ELSE "users::create/create"

create_after_create(ok) ==
    IF ok THEN "users::create/list" ELSE "users::create/failed"

users_create(r) ==
    /\ req[r].pc = "idle"
    /\ \E form \in CreateForms :
         LET errors == create_errors(form)
             next == create_after_validate(errors)
         IN  Step(r, [Idle EXCEPT
                        !.route = "users::create",
                        !.before = store,
                        !.cform = form,
                        !.errors = errors,
                        !.request = IF next = "users::create/create"
                                    THEN CreateUserRequest(form)
                                    ELSE NoRequest,
                        !.pc = next])
    /\ UNCHANGED <<store, arg, out>>

users_create_invalid(r) ==
    /\ req[r].pc = "users::create/invalid"
    /\ \E result \in ConnectionResults, rendered \in BOOLEAN :
         Step(r, Respond(
                [req[r] EXCEPT !.calls = Call(req[r], "connections.list",
                                              result.ok)],
                create_invalid_response(req[r], get_connection_names(result),
                                        rendered)))
    /\ UNCHANGED <<store, arg, out>>

users_create_create(r) ==
    /\ req[r].pc = "users::create/create"
    /\ \E ok \in BOOLEAN :
         Step(r, [req[r] EXCEPT
                    !.calls = Call(req[r], "users.create", ok),
                    !.applied = ok,
                    !.errors = IF ok THEN @ ELSE create_failed_errors,
                    !.pc = create_after_create(ok)])
    /\ UNCHANGED <<store, arg, out>>

users_create_list(r) ==
    /\ req[r].pc = "users::create/list"
    /\ \E result \in UsersListResults, rendered \in BOOLEAN :
         Step(r, Respond(
                [req[r] EXCEPT !.calls = Call(req[r], "users.list", result.ok),
                               !.users = or_empty(result)],
                create_ok_response(or_empty(result), rendered)))
    /\ UNCHANGED <<store, arg, out>>

users_create_failed(r) ==
    /\ req[r].pc = "users::create/failed"
    /\ \E result \in ConnectionResults, rendered \in BOOLEAN :
         Step(r, Respond(
                [req[r] EXCEPT !.calls = Call(req[r], "connections.list",
                                              result.ok)],
                create_failed_response(req[r], get_connection_names(result),
                                       rendered)))
    /\ UNCHANGED <<store, arg, out>>

----------------------------------------------------------------------------
(* routes/users.rs: get, get_logs *)

get_response_renders_missing(result, rendered) ==
    render(DetailTemplate(result.val, FormErrors_new), rendered)

get_response(result, rendered) ==
    IF result.ok
    THEN render(DetailTemplate(result.val, FormErrors_new), rendered)
    ELSE into_response("NotFound")

users_get_start(r) ==
    /\ req[r].pc = "idle"
    /\ \E id \in UserIds :
         Step(r, [Idle EXCEPT !.route = "users::get", !.id = id,
                              !.pc = "users::get/get"])
    /\ UNCHANGED <<store, arg, out>>

users_get_return(r) ==
    /\ req[r].pc = "users::get/get"
    /\ \E fault \in BOOLEAN, rendered \in BOOLEAN :
         LET result == users_get(req[r].id, fault)
         IN  Step(r, Respond(
                    [req[r] EXCEPT !.calls = Call(req[r], "users.get",
                                                  result.ok),
                                   !.user = result.val],
                    get_response(result, rendered)))
    /\ UNCHANGED <<store, arg, out>>

get_logs_response(result, rendered) ==
    IF result.ok
    THEN render(LogsTemplate(result.val), rendered)
    ELSE HtmlText("<p class='text-muted'>Unable to load logs</p>")

users_get_logs(r) ==
    /\ req[r].pc = "idle"
    /\ \E id \in UserIds :
         Step(r, [Idle EXCEPT !.route = "users::get_logs", !.id = id,
                              !.pc = "users::get_logs/get_logs"])
    /\ UNCHANGED <<store, arg, out>>

users_get_logs_return(r) ==
    /\ req[r].pc = "users::get_logs/get_logs"
    /\ \E result \in UserLogsResults, rendered \in BOOLEAN :
         Step(r, Respond(
                [req[r] EXCEPT !.calls = Call(req[r], "users.get_logs",
                                              result.ok)],
                get_logs_response(result, rendered)))
    /\ UNCHANGED <<store, arg, out>>

----------------------------------------------------------------------------
(* routes/users.rs: update *)

update_errors(form) == FormErrors_from(UpdateForm_validate(form))

update_after_validate_always_calls(errors) == "users::update/update"

update_after_validate(errors) ==
    IF ~FormErrors_is_empty(errors)
    THEN "users::update/invalid"
    ELSE "users::update/update"

\* the three places where update fetches the user and renders the detail
update_detail_response(result, errors, rendered) ==
    IF result.ok
    THEN render(DetailTemplate(result.val, errors), rendered)
    ELSE into_response("NotFound")

update_failed_errors_forgotten == FormErrors_new

update_failed_errors == add_base(FormErrors_new, "Failed to update user")

users_update(r) ==
    /\ req[r].pc = "idle"
    /\ \E id \in UserIds, form \in UpdateForms :
         LET errors == update_errors(form)
             next == update_after_validate(errors)
         IN  Step(r, [Idle EXCEPT
                        !.route = "users::update",
                        !.before = store,
                        !.id = id,
                        !.uform = form,
                        !.errors = errors,
                        !.request = IF next = "users::update/update"
                                    THEN UpdateUserRequest(form)
                                    ELSE NoRequest,
                        !.pc = next])
    /\ UNCHANGED <<store, arg, out>>

users_update_invalid(r) ==
    /\ req[r].pc = "users::update/invalid"
    /\ \E fault \in BOOLEAN, rendered \in BOOLEAN :
         LET result == users_get(req[r].id, fault)
         IN  Step(r, Respond(
                    [req[r] EXCEPT !.calls = Call(req[r], "users.get",
                                                  result.ok),
                                   !.user = result.val],
                    update_detail_response(result, req[r].errors, rendered)))
    /\ UNCHANGED <<store, arg, out>>

users_update_update(r) ==
    /\ req[r].pc = "users::update/update"
    /\ \E fault \in BOOLEAN :
         LET id == req[r].id
             ok == users_write_ok(id, fault)
         IN  /\ Step(r, [req[r] EXCEPT
                           !.calls = Call(req[r], "users.update", ok),
                           !.applied = ok,
                           !.errors = IF ok THEN FormErrors_new
                                      ELSE update_failed_errors,
                           !.pc = IF ok THEN "users::update/updated"
                                  ELSE "users::update/failed"])
             /\ store' = IF ok
                         THEN [store EXCEPT
                                 ![id] = apply_update(@, req[r].request)]
                         ELSE store
    /\ UNCHANGED <<arg, out>>

users_update_updated(r) ==
    /\ req[r].pc = "users::update/updated"
    /\ \E fault \in BOOLEAN, rendered \in BOOLEAN :
         LET result == users_get(req[r].id, fault)
         IN  Step(r, Respond(
                    [req[r] EXCEPT !.calls = Call(req[r], "users.get",
                                                  result.ok),
                                   !.user = result.val],
                    update_detail_response(result, FormErrors_new, rendered)))
    /\ UNCHANGED <<store, arg, out>>

users_update_failed(r) ==
    /\ req[r].pc = "users::update/failed"
    /\ \E fault \in BOOLEAN, rendered \in BOOLEAN :
         LET result == users_get(req[r].id, fault)
         IN  Step(r, Respond(
                    [req[r] EXCEPT !.calls = Call(req[r], "users.get",
                                                  result.ok),
                                   !.user = result.val],
                    update_detail_response(result, req[r].errors, rendered)))
    /\ UNCHANGED <<store, arg, out>>

----------------------------------------------------------------------------
(* routes/users.rs: delete *)

delete_response(ok) ==
    IF ok THEN Redirect_to("/users") ELSE into_response("Auth0")

users_delete(r) ==
    /\ req[r].pc = "idle"
    /\ \E id \in UserIds :
         Step(r, [Idle EXCEPT !.route = "users::delete", !.id = id,
                              !.before = store,
                              !.pc = "users::delete/delete"])
    /\ UNCHANGED <<store, arg, out>>

users_delete_return(r) ==
    /\ req[r].pc = "users::delete/delete"
    /\ \E fault \in BOOLEAN :
         LET id == req[r].id
             ok == users_write_ok(id, fault)
         IN  /\ Step(r, Respond(
                      [req[r] EXCEPT !.calls = Call(req[r], "users.delete", ok),
                                     !.applied = ok],
                      delete_response(ok)))
             /\ store' = IF ok THEN [store EXCEPT ![id] = Missing] ELSE store
    /\ UNCHANGED <<arg, out>>

----------------------------------------------------------------------------
(* routes/users.rs: toggle_block *)

\* the branch after the update: refresh the listing, or redirect
toggle_block_after_update_redirects(headers) == "done"

toggle_block_after_update(headers) ==
    IF htmx_target_is(headers, "users-table")
    THEN "users::toggle_block/list"
    ELSE "done"

toggle_block_redirect(id) == Redirect_to("/users/" \o id)

toggle_block_list_response(users, rendered) ==
    render(TableTemplate(users, 0, 1), rendered)

users_toggle_block(r) ==
    /\ req[r].pc = "idle"
    /\ \E id \in UserIds, headers \in HeaderMaps :
         Step(r, [Idle EXCEPT !.route = "users::toggle_block", !.id = id,
                              !.headers = headers, !.before = store,
                              !.pc = "users::toggle_block/get"])
    /\ UNCHANGED <<store, arg, out>>

users_toggle_block_get(r) ==
    /\ req[r].pc = "users::toggle_block/get"
    /\ \E fault \in BOOLEAN :
         LET result == users_get(req[r].id, fault)
             q == [req[r] EXCEPT !.calls = Call(req[r], "users.get",
                                                result.ok),
                                 !.user = result.val]
         IN  IF result.ok
             THEN Step(r, [q EXCEPT !.request = ToggleRequest(result.val),
                                    !.pc = "users::toggle_block/update"])
             ELSE Step(r, Respond(q, into_response("NotFound")))
    /\ UNCHANGED <<store, arg, out>>

users_toggle_block_update(r) ==
    /\ req[r].pc = "users::toggle_block/update"
    /\ \E fault \in BOOLEAN :
         LET id == req[r].id
             ok == users_write_ok(id, fault)
             q == [req[r] EXCEPT !.calls = Call(req[r], "users.update", ok),
                                 !.applied = ok]
             next == toggle_block_after_update(q.headers)
         IN  /\ IF ~ok
                THEN Step(r, Respond(q, into_response("Auth0")))
                ELSE IF next = "done"
                THEN Step(r, Respond(q, toggle_block_redirect(id)))
                ELSE Step(r, [q EXCEPT !.pc = next])
             /\ store' = IF ok
                         THEN [store EXCEPT
                                 ![id] = apply_update(@, req[r].request)]
                         ELSE store
    /\ UNCHANGED <<arg, out>>

users_toggle_block_list(r) ==
    /\ req[r].pc = "users::toggle_block/list"
    /\ \E result \in UsersListResults, rendered \in BOOLEAN :
         Step(r, Respond(
                [req[r] EXCEPT !.calls = Call(req[r], "users.list", result.ok),
                               !.users = or_empty(result)],
                toggle_block_list_response(or_empty(result), rendered)))
    /\ UNCHANGED <<store, arg, out>>

----------------------------------------------------------------------------
(* The response is written and the request's locals are dropped *)

Finish(r) ==
    /\ req[r].pc = "done"
    /\ Step(r, Idle)
    /\ UNCHANGED <<store, arg, out>>

Next ==
    \E r \in SeqReqs :
        \/ root_index(r)
        \/ connections_list(r) \/ connections_list_return(r)
        \/ applications_list(r) \/ applications_list_return(r)
        \/ logs_list(r) \/ logs_list_return(r)
        \/ users_list(r) \/ users_list_users(r) \/ users_list_connections(r)
        \/ users_create(r) \/ users_create_invalid(r)
        \/ users_create_create(r) \/ users_create_list(r)
        \/ users_create_failed(r)
        \/ users_get_start(r) \/ users_get_return(r)
        \/ users_get_logs(r) \/ users_get_logs_return(r)
        \/ users_update(r) \/ users_update_invalid(r)
        \/ users_update_update(r) \/ users_update_updated(r)
        \/ users_update_failed(r)
        \/ users_delete(r) \/ users_delete_return(r)
        \/ users_toggle_block(r) \/ users_toggle_block_get(r)
        \/ users_toggle_block_update(r) \/ users_toggle_block_list(r)
        \/ Finish(r)

Spec == Init /\ [][Next]_vars

----------------------------------------------------------------------------
(* Two toggle_block requests served concurrently: each request is a task  *)
(* that yields at its upstream awaits, so the steps of the two interleave  *)

NextToggle ==
    \E r \in Reqs :
        \/ users_toggle_block(r) \/ users_toggle_block_get(r)
        \/ users_toggle_block_update(r) \/ users_toggle_block_list(r)

SpecToggle == Init /\ [][NextToggle]_vars

----------------------------------------------------------------------------
(* main.rs: the monolithic handlers.  Slot r replays the request that the  *)
(* modular handler of slot m has answered, on the upstream records that    *)
(* request started on.                                                      *)

\* askama_axum: Template::into_response, 500 when the template fails
main_template_response(view, rendered) ==
    IF rendered
    THEN Html(view)
    ELSE [NoResp EXCEPT !.status = 500, !.kind = "error"]

\* (StatusCode, &'static str).into_response()
main_status_response(status, body) ==
    [NoResp EXCEPT !.status = status, !.kind = "error", !.body = body]

UsersListTemplate(users, page, pages, search_query, connection, conns) ==
    [ tmpl |-> "users/list.html", users |-> users, page |-> page,
      total_pages |-> pages, search_query |-> search_query,
      connection |-> connection, connections |-> conns ]

ToastTemplate(toast_type, title, message) ==
    [ tmpl |-> "toast.html", toast_type |-> toast_type, title |-> title,
      message |-> message ]

\* (users.len() as u32 / per_page).max(1)
main_total_pages(len, per_page) == Max(len \div per_page, 1)

main_list_users_response(q, connections, rendered) ==
    LET page == unwrap_or(q.query.page, 0)
        per_page == UsersPerPage
        pages == main_total_pages(q.users, per_page)
        is_htmx == is_some(q.headers.hx_request)
    IN  IF is_htmx
        THEN main_template_response(TableTemplate(q.users, page, pages),
                                    rendered)
        ELSE main_template_response(
                 UsersListTemplate(q.users, page, pages,
                                   unwrap_or_default(q.query.q),
                                   unwrap_or_default(q.query.connection),
                                   connections), rendered)

main_list_users(m, r) ==
    /\ req[r].pc = "idle"
    /\ req[m].pc = "done"
    /\ req[m].route = "users::list"
    /\ Step(r, [Idle EXCEPT !.route = "main::list_users",
                            !.query = req[m].query,
                            !.headers = req[m].headers,
                            !.pc = "main::list_users/list"])
    /\ UNCHANGED <<store, arg, out>>

main_list_users_users(r) ==
    /\ req[r].pc = "main::list_users/list"
    /\ \E result \in UsersListResults :
         Step(r, [req[r] EXCEPT !.calls = Call(req[r], "users.list", result.ok),
                                !.users = or_empty(result),
                                !.pc = "main::list_users/connections"])
    /\ UNCHANGED <<store, arg, out>>

main_list_users_connections(r) ==
    /\ req[r].pc = "main::list_users/connections"
    /\ \E result \in ConnectionResults, rendered \in BOOLEAN :
         Step(r, Respond(
                [req[r] EXCEPT !.calls = Call(req[r], "connections.list",
                                              result.ok)],
                main_list_users_response(req[r], get_connection_names(result),
                                         rendered)))
    /\ UNCHANGED <<store, arg, out>>

\* create_user builds its request with the expressions of users::create
\* (main.rs 175-193 and users.rs 154-171 are the same text), unvalidated
main_create_user(m, r) ==
    /\ req[r].pc = "idle"
    /\ req[m].pc = "done"
    /\ req[m].route = "users::create"
    /\ LET form == req[m].cform
       IN  Step(r, [Idle EXCEPT !.route = "main::create_user",
                                !.cform = form,
                                !.before = req[m].before,
                                !.request = CreateUserRequest(form),
                                !.pc = "main::create_user/create"])
    /\ store' = req[m].before
    /\ UNCHANGED <<arg, out>>

main_create_user_create(r) ==
    /\ req[r].pc = "main::create_user/create"
    /\ \E ok \in BOOLEAN :
         LET q == [req[r] EXCEPT !.calls = Call(req[r], "users.create", ok),
                                 !.applied = ok]
         IN  IF ok
             THEN Step(r, [q EXCEPT !.pc = "main::create_user/list"])
             ELSE Step(r, Respond(q, main_status_response(
                                         500, "Failed to create user")))
    /\ UNCHANGED <<store, arg, out>>

main_create_user_list(r) ==
    /\ req[r].pc = "main::create_user/list"
    /\ \E result \in UsersListResults, rendered \in BOOLEAN :
         Step(r, Respond(
                [req[r] EXCEPT !.calls = Call(req[r], "users.list", result.ok),
                               !.users = or_empty(result)],
                main_template_response(TableTemplate(or_empty(result), 0, 1),
                                       rendered)))
    /\ UNCHANGED <<store, arg, out>>

\* update_user builds its request with the expressions of users::update
\* (main.rs 249-269 and users.rs 258-278 are the same text), unvalidated
main_update_user(m, r) ==
    /\ req[r].pc = "idle"
    /\ req[m].pc = "done"
    /\ req[m].route = "users::update"
    /\ LET form == req[m].uform
       IN  Step(r, [Idle EXCEPT !.route = "main::update_user",
                                !.id = req[m].id,
                                !.uform = form,
                                !.before = req[m].before,
                                !.request = UpdateUserRequest(form),
                                !.pc = "main::update_user/update"])
    /\ store' = req[m].before
    /\ UNCHANGED <<arg, out>>

main_update_user_update(r) ==
    /\ req[r].pc = "main::update_user/update"
    /\ \E fault \in BOOLEAN, rendered \in BOOLEAN :
         LET id == req[r].id
             ok == users_write_ok(id, fault)
             q == [req[r] EXCEPT !.calls = Call(req[r], "users.update", ok),
                                 !.applied = ok]
             toast == IF ok
                      THEN ToastTemplate("success", "Success",
                                         "User updated successfully")
                      ELSE ToastTemplate("danger", "Error",
                                         "Failed to update user")
         IN  /\ Step(r, Respond(q, main_template_response(toast, rendered)))
             /\ store' = IF ok
                         THEN [store EXCEPT
                                 ![id] = apply_update(@, req[r].request)]
                         ELSE store
    /\ UNCHANGED <<arg, out>>

main_delete_user(m, r) ==
    /\ req[r].pc = "idle"
    /\ req[m].pc = "done"
    /\ req[m].route = "users::delete"
    /\ Step(r, [Idle EXCEPT !.route = "main::delete_user",
                            !.id = req[m].id,
                            !.before = req[m].before,
                            !.pc = "main::delete_user/delete"])
    /\ store' = req[m].before
    /\ UNCHANGED <<arg, out>>

main_delete_user_delete(r) ==
    /\ req[r].pc = "main::delete_user/delete"
    /\ \E fault \in BOOLEAN :
         LET id == req[r].id
             ok == users_write_ok(id, fault)
             q == [req[r] EXCEPT !.calls = Call(req[r], "users.delete", ok),
                                 !.applied = ok]
         IN  /\ IF ok
                THEN Step(r, Respond(q, Redirect_to("/users")))
                ELSE Step(r, Respond(q, main_status_response(
                                            500, "Failed to delete user")))
             /\ store' = IF ok THEN [store EXCEPT ![id] = Missing] ELSE store
    /\ UNCHANGED <<arg, out>>

\* the modular handler answers in slot 1, then the monolithic one in slot 2
NextPair ==
    \/ users_list(1) \/ users_list_users(1) \/ users_list_connections(1)
    \/ users_create(1) \/ users_create_invalid(1)
    \/ users_create_create(1) \/ users_create_list(1)
    \/ users_create_failed(1)
    \/ users_update(1) \/ users_update_invalid(1)
    \/ users_update_update(1) \/ users_update_updated(1)
    \/ users_update_failed(1)
    \/ users_delete(1) \/ users_delete_return(1)
    \/ main_list_users(1, 2) \/ main_list_users_users(2)
    \/ main_list_users_connections(2)
    \/ main_create_user(1, 2) \/ main_create_user_create(2)
    \/ main_create_user_list(2)
    \/ main_update_user(1, 2) \/ main_update_user_update(2)
    \/ main_delete_user(1, 2) \/ main_delete_user_delete(2)

SpecPair == Init /\ [][NextPair]_vars

----------------------------------------------------------------------------
(* helpers.rs applied to drawn inputs *)

HelperArgs ==
    {[NoArg EXCEPT !.fn = "total_pages", !.n = n, !.p = p] :
        n \in 0..MaxItems, p \in 0..MaxPerPage}
    \cup {[NoArg EXCEPT !.fn = "is_htmx_request", !.headers = h] :
            h \in HeaderMaps}
    \cup {[NoArg EXCEPT !.fn = "htmx_target_is", !.headers = h, !.target = t] :
            h \in HeaderMaps, t \in Regions}

InitHelpers ==
    /\ store = [id \in UserIds |-> Missing]
    /\ req = [r \in Reqs |-> Idle]
    /\ arg \in HelperArgs
    /\ out = NoOut

apply_total_pages ==
    /\ arg.fn = "total_pages"
    /\ ~out.set
    /\ out' = [NoOut EXCEPT !.set = TRUE,
                            !.pages = total_pages(arg.n, arg.p)]
    /\ UNCHANGED <<store, req, arg>>

apply_is_htmx_request ==
    /\ arg.fn = "is_htmx_request"
    /\ ~out.set
    /\ out' = [NoOut EXCEPT !.set = TRUE,
                            !.flag = is_htmx_request(arg.headers)]
    /\ UNCHANGED <<store, req, arg>>

apply_htmx_target_is ==
    /\ arg.fn = "htmx_target_is"
    /\ ~out.set
    /\ out' = [NoOut EXCEPT !.set = TRUE,
                            !.flag = htmx_target_is(arg.headers, arg.target)]
    /\ UNCHANGED <<store, req, arg>>

NextHelpers ==
    apply_total_pages \/ apply_is_htmx_request \/ apply_htmx_target_is

SpecHelpers == InitHelpers /\ [][NextHelpers]_vars

----------------------------------------------------------------------------
(* Vocabulary of the properties *)

Done(q) == q.pc = "done"

Ops(q) == {q.calls[i].op : i \in DOMAIN q.calls}

Failed(q, op) == \E i \in DOMAIN q.calls : q.calls[i].op = op /\ ~q.calls[i].ok

Succeeded(q, op) ==
    \E i \in DOMAIN q.calls : q.calls[i].op = op /\ q.calls[i].ok

WriteOps == {"users.create", "users.update", "users.delete"}

\* the 500 of a template that failed to render (errors.rs, AppError::Template)
TemplateFailed(q) == q.resp = into_response("Template")

\* the response is the rendering of a view of one of the given templates
Renders(q, tmpls) ==
    /\ q.resp.status = 200
    /\ q.resp.kind = "html"
    /\ q.resp.view.tmpl \in tmpls

----------------------------------------------------------------------------
\* C1: in users::create a form whose validation yields a non-empty error
\* set is answered without any upstream create-user call, and the response
\* is the create form re-rendered with that error set and status 200 (the
\* only other outcome being the 500 of a template that fails to render).
C1_InvalidCreateIsRejected ==
    \A r \in Reqs :
        LET q == req[r]
            violations == CreateForm_validate(q.cform)
        IN  (q.route = "users::create" /\ violations # {}) =>
                /\ "users.create" \notin Ops(q)
                /\ Done(q) =>
                     \/ TemplateFailed(q)
                     \/ /\ Renders(q, {"users/create_form.html"})
                        /\ q.resp.view.errors = FormErrors_from(violations)

C1_Witness ==
    \E r \in Reqs :
        /\ Done(req[r])
        /\ req[r].route = "users::create"
        /\ Cardinality(CreateForm_validate(req[r].cform)) = 2
        /\ Renders(req[r], {"users/create_form.html"})

----------------------------------------------------------------------------
\* C2: in users::create, update, delete and toggle_block, when the upstream
\* mutation call fails the response carries an error: an error response, or
\* a re-rendered view with a form-level error entry; never a redirect or a
\* view without errors.
CarriesError(resp) ==
    \/ resp.kind = "error" /\ resp.status >= 400
    \/ /\ resp.kind = "html"
       /\ resp.view.tmpl \in {"users/create_form.html", "users/detail.html"}
       /\ resp.view.errors.base # << >>

C2_FailedMutationIsSurfaced ==
    \A r \in Reqs :
        LET q == req[r]
        IN  (Done(q) /\ \E op \in WriteOps : Failed(q, op)) =>
                CarriesError(q.resp)

C2_Witness ==
    \E r \in Reqs :
        /\ Done(req[r])
        /\ req[r].route = "users::update"
        /\ Failed(req[r], "users.update")
        /\ Renders(req[r], {"users/detail.html"})
        /\ req[r].resp.view.errors.base # << >>

----------------------------------------------------------------------------
\* C3: in users::list, logs::list, connections::list and applications::list
\* a failed upstream list call yields the handler's normal view (page or
\* fragment) with zero rows and status 200, never an error response for the
\* upstream failure (the 500 of a template failure apart).
ListCall(route) ==
    CASE route = "users::list" -> "users.list"
      [] route = "logs::list" -> "logs.list"
      [] route = "connections::list" -> "connections.list"
      [] route = "applications::list" -> "clients.list"

ListViews(route) ==
    CASE route = "users::list" -> {"users/list.html", "users/table.html"}
      [] route = "logs::list" -> {"logs/list.html", "logs/table.html"}
      [] route = "connections::list" ->
           {"connections/list.html", "connections/table.html"}
      [] route = "applications::list" ->
           {"applications/list.html", "applications/table.html"}

Rows(view) ==
    CASE view.tmpl \in {"users/list.html", "users/table.html"} -> view.users
      [] view.tmpl \in {"logs/list.html", "logs/table.html"} -> view.logs
      [] view.tmpl \in {"connections/list.html", "connections/table.html"} ->
           view.connections
      [] view.tmpl \in {"applications/list.html", "applications/table.html"} ->
           view.applications

ListRoutes ==
    {"users::list", "logs::list", "connections::list", "applications::list"}

C3_FailedListRendersEmpty ==
    \A r \in Reqs :
        LET q == req[r]
        IN  (Done(q) /\ q.route \in ListRoutes
               /\ Failed(q, ListCall(q.route))) =>
                \/ TemplateFailed(q)
                \/ /\ Renders(q, ListViews(q.route))
                   /\ Rows(q.resp.view) = 0

C3_Witness ==
    \E r \in Reqs :
        /\ Done(req[r])
        /\ req[r].route = "logs::list"
        /\ Failed(req[r], "logs.list")
        /\ Renders(req[r], {"logs/list.html"})
        /\ Rows(req[r].resp.view) = 0

----------------------------------------------------------------------------
\* C4: in users::toggle_block, once the upstream get and update have both
\* succeeded, a request whose hx-target header equals "users-table" gets
\* the users-listing fragment and no redirect, and every other request
\* (header absent or different) gets a redirect to /users/{id}.
TargetsUsersTable(headers) ==
    headers.hx_target = Some(HeaderValue("users-table", TRUE))

C4_ToggleBlockResponse ==
    \A r \in Reqs :
        LET q == req[r]
        IN  (Done(q) /\ q.route = "users::toggle_block"
               /\ Succeeded(q, "users.get") /\ Succeeded(q, "users.update")) =>
                IF TargetsUsersTable(q.headers)
                THEN \/ TemplateFailed(q)
                     \/ Renders(q, {"users/table.html"})
                ELSE q.resp = Redirect_to("/users/" \o q.id)

C4_Witness ==
    \E r \in Reqs :
        /\ Done(req[r])
        /\ req[r].route = "users::toggle_block"
        /\ Succeeded(req[r], "users.update")
        /\ TargetsUsersTable(req[r].headers)
        /\ Renders(req[r], {"users/table.html"})

----------------------------------------------------------------------------
\* C5: total_pages(n, p) is the ceiling of n / max(p, 1), floored at 1; so
\* total_pages(0, p) = 1 and total_pages(n, 0) = total_pages(n, 1).
\* Ceil(n, d) is the least k with k * d >= n.
Ceil(n, d) == CHOOSE k \in 0..n : k * d >= n /\ \A j \in 0..(k - 1) : j * d < n

C5_TotalPages ==
    (out.set /\ arg.fn = "total_pages") =>
        /\ out.pages = Max(1, Ceil(arg.n, Max(arg.p, 1)))
        /\ arg.n = 0 => out.pages = 1
        /\ arg.p = 0 => out.pages = Max(1, arg.n)

C5_Witness ==
    /\ out.set
    /\ arg.fn = "total_pages"
    /\ arg.n = 7
    /\ arg.p = 3
    /\ out.pages = 3

----------------------------------------------------------------------------
\* C6: is_htmx_request is true exactly when the hx-request header is
\* present, whatever its value; htmx_target_is(headers, r) is true exactly
\* when the hx-target header is present and its value is r; with neither
\* header both are false.
C6_ModeDetection ==
    out.set =>
        /\ arg.fn = "is_htmx_request" =>
             (out.flag <=> arg.headers.hx_request # None)
        /\ arg.fn = "htmx_target_is" =>
             (out.flag <=> \E v \in HxTargetValues :
                             /\ arg.headers.hx_target = Some(v)
                             /\ v.raw = arg.target)
        /\ (arg.fn \in {"is_htmx_request", "htmx_target_is"}
              /\ arg.headers = NoHeaders) => ~out.flag

C6_Witness ==
    /\ out.set
    /\ arg.fn = "htmx_target_is"
    /\ arg.headers.hx_request # None
    /\ arg.headers.hx_target = Some(HeaderValue("other", TRUE))
    /\ arg.target = "other"
    /\ out.flag

----------------------------------------------------------------------------
(* Submitted forms, as the properties read them *)

Violations(q) ==
    CASE q.route = "users::create" -> CreateForm_validate(q.cform)
      [] q.route = "users::update" -> UpdateForm_validate(q.uform)
      [] OTHER -> {}

SubmittedForm(q) == IF q.route = "users::create" THEN q.cform ELSE q.uform

\* a field left empty: omitted, or submitted as the empty string
LeftEmpty(o) == o \in {None, Some(<< >>)}

----------------------------------------------------------------------------
\* C7: in users::create a valid form whose optional fields (username,
\* given_name, family_name, verify_email) are all left empty is sent
\* upstream with every optional field absent, the derived name and
\* verify_email included.
C7_EmptyOptionalsAreAbsent ==
    \A r \in Reqs :
        LET q == req[r]
        IN  (q.route = "users::create" /\ "users.create" \in Ops(q)
               /\ LeftEmpty(q.cform.username)
               /\ LeftEmpty(q.cform.given_name)
               /\ LeftEmpty(q.cform.family_name)
               /\ LeftEmpty(q.cform.verify_email)) =>
                /\ q.request.username = None
                /\ q.request.given_name = None
                /\ q.request.family_name = None
                /\ q.request.name = None
                /\ q.request.verify_email = None

----------------------------------------------------------------------------
\* C8: in users::create and users::update the name sent upstream is
\* "{given} {family}" when both parts are present, the one present part
\* when only one is, and absent when neither is, a part submitted as the
\* empty string counting as not present.
ExpectedName(form) ==
    LET given == filter_non_empty(form.given_name)
        family == filter_non_empty(form.family_name)
    IN  CASE given # None /\ family # None ->
               Some(given[1] \o << " " >> \o family[1])
          [] given # None /\ family = None -> given
          [] given = None /\ family # None -> family
          [] OTHER -> None

C8_NameDerivation ==
    \A r \in Reqs :
        LET q == req[r]
        IN  (q.route \in {"users::create", "users::update"}
               /\ Ops(q) \cap {"users.create", "users.update"} # {}) =>
                q.request.name = ExpectedName(SubmittedForm(q))

----------------------------------------------------------------------------
\* C9: in users::create and users::update, when validation fails the view
\* rendered in the response holds the field values the user submitted,
\* unchanged.
C9_InvalidFormIsEchoed ==
    \A r \in Reqs :
        LET q == req[r]
        IN  (Done(q) /\ Violations(q) # {} /\ q.resp.kind = "html") =>
                /\ "form" \in DOMAIN q.resp.view
                /\ q.resp.view.form = SubmittedForm(q)

----------------------------------------------------------------------------
\* C10 as claimed: in users::create and users::update a form that fails
\* validation is answered without any upstream call, read or write.
C10_NoUpstreamCallWhenInvalid ==
    \A r \in Reqs :
        LET q == req[r]
        IN  (Done(q) /\ Violations(q) # {}) => q.calls = << >>

\* C10 as amended: a form that fails validation is answered without any
\* upstream write (create, update, delete) and after exactly one upstream
\* read, made to render the response: the connection list in users::create,
\* the get of the user in users::update.
InvalidFormRead(route) ==
    IF route = "users::create" THEN "connections.list" ELSE "users.get"

C10_OneReadNoWriteWhenInvalid ==
    \A r \in Reqs :
        LET q == req[r]
        IN  Violations(q) # {} =>
                /\ Ops(q) \cap WriteOps = {}
                /\ Done(q) =>
                     /\ Len(q.calls) = 1
                     /\ q.calls[1].op = InvalidFormRead(q.route)

C10_Witness ==
    \E r \in Reqs :
        /\ Done(req[r])
        /\ req[r].route = "users::update"
        /\ Violations(req[r]) # {}
        /\ Len(req[r].calls) = 1
        /\ req[r].calls[1] = [op |-> "users.get", ok |-> TRUE]

----------------------------------------------------------------------------
(* The mutating handlers *)

MutatingRoutes ==
    {"users::create", "users::update", "users::delete", "users::toggle_block"}

----------------------------------------------------------------------------
\* C11: in users::create, update, delete and toggle_block, whenever the
\* response is an error response or a view carrying a form-level error, the
\* upstream mutation of that request was not applied: the upstream records
\* are as they were when the request started. (The 500 of a template that
\* fails to render is left out of the error responses meant here.)
C11_ErrorMeansNotApplied ==
    \A r \in Reqs :
        LET q == req[r]
        IN  (Done(q) /\ q.route \in MutatingRoutes /\ CarriesError(q.resp)
               /\ ~TemplateFailed(q)) =>
                /\ ~q.applied
                /\ store = q.before

----------------------------------------------------------------------------
\* C12: in users::get, when the upstream get reports the user missing (or
\* fails otherwise) the response is the not-found response, status 404, and
\* no detail view; the detail view is rendered only after a successful get,
\* and it shows the record the get returned.
C12_MissingUserIsNotFound ==
    \A r \in Reqs :
        LET q == req[r]
        IN  (Done(q) /\ q.route = "users::get") =>
                /\ Len(q.calls) = 1
                /\ q.calls[1].op = "users.get"
                /\ (~store[q.id].exists \/ Failed(q, "users.get")) =>
                     /\ q.resp = into_response("NotFound")
                     /\ q.resp.status = 404
                     /\ q.resp.view = NoView
                /\ q.resp.view.tmpl = "users/detail.html" =>
                     /\ Succeeded(q, "users.get")
                     /\ q.resp.view.user = store[q.id]
                     /\ store[q.id].exists

C12_Witness ==
    \E r \in Reqs :
        /\ Done(req[r])
        /\ req[r].route = "users::get"
        /\ ~store[req[r].id].exists
        /\ req[r].calls = << [op |-> "users.get", ok |-> FALSE] >>
        /\ req[r].resp.status = 404

----------------------------------------------------------------------------
\* C13: in users::update a form whose optional validated fields (email,
\* picture, password) are all left empty, omitted or submitted as empty
\* strings, yields an empty validation error set, so the handler goes on to
\* the upstream update call.
C13_EmptyOptionalsAreValid ==
    \A r \in Reqs :
        LET q == req[r]
        IN  (q.route = "users::update"
               /\ LeftEmpty(q.uform.email)
               /\ LeftEmpty(q.uform.picture)
               /\ LeftEmpty(q.uform.password)) =>
                /\ UpdateForm_validate(q.uform) = {}
                /\ FormErrors_is_empty(update_errors(q.uform))
                /\ Done(q) => "users.update" \in Ops(q)

----------------------------------------------------------------------------
\* C14: in users::list and logs::list the page count of the rendered view is
\* computed from the number of records the upstream returned for the
\* requested page and the page size (20 users, 50 logs): the ceiling of
\* their quotient, at least 1.  So whenever the upstream returns no more
\* records than the page size the page count is 1, whatever the page
\* number, and it is 1 when the upstream call fails.
PageSize(route) == IF route = "users::list" THEN UsersPerPage ELSE LogsPerPage

C14_PageCountFromReturnedRows ==
    \A r \in Reqs :
        LET q == req[r]
            view == q.resp.view
            returned == q.users
        IN  (Done(q) /\ q.route \in {"users::list", "logs::list"}
               /\ Renders(q, ListViews(q.route))) =>
                /\ Rows(view) = returned
                /\ view.page = unwrap_or(q.query.page, 0)
                /\ view.total_pages =
                     Max(1, Ceil(returned, PageSize(q.route)))
                /\ returned <= PageSize(q.route) => view.total_pages = 1
                /\ Failed(q, ListCall(q.route)) => view.total_pages = 1

C14_Witness ==
    \E r \in Reqs :
        /\ Done(req[r])
        /\ req[r].route = "users::list"
        /\ Succeeded(req[r], "users.list")
        /\ req[r].query.page = Some(1)
        /\ Renders(req[r], ListViews("users::list"))
        /\ Rows(req[r].resp.view) = UsersPerPage
        /\ req[r].resp.view.page = 1
        /\ req[r].resp.view.total_pages = 1

----------------------------------------------------------------------------
\* C15: no retries.  In users::create, update, delete and toggle_block the
\* upstream create, update and delete operations are each invoked at most
\* once per request, also when the invocation fails; an upstream call that
\* failed is never issued again by the handler.
Count(q, op) == Cardinality({i \in DOMAIN q.calls : q.calls[i].op = op})

C15_NoRetries ==
    \A r \in Reqs :
        LET q == req[r]
        IN  q.route \in MutatingRoutes =>
                /\ \A op \in WriteOps : Count(q, op) <= 1
                /\ \A op \in Ops(q) : Failed(q, op) => Count(q, op) = 1
                /\ Cardinality(Ops(q) \cap WriteOps) <= 1

C15_Witness ==
    \E r \in Reqs :
        /\ Done(req[r])
        /\ req[r].route = "users::create"
        /\ Failed(req[r], "users.create")
        /\ Count(req[r], "users.create") = 1
        /\ Len(req[r].calls) = 2

----------------------------------------------------------------------------
\* C16: users::toggle_block calls the upstream in the order get(id), then
\* update(id), then (fragment responses only) list.  The update request has
\* only `blocked` set, to the negation of the flag just fetched, an absent
\* flag counting as false.  If the get fails no update is issued and the
\* response is 404; if the update fails the response is the upstream-error
\* response (502) and neither the list fetch nor a redirect follows.
ToggleOrder == << "users.get", "users.update", "users.list" >>

C16_ToggleBlockOrder ==
    \A r \in Reqs :
        LET q == req[r]
            fetched == q.user.blocked = Some(TRUE)
        IN  q.route = "users::toggle_block" =>
                /\ Len(q.calls) <= Len(ToggleOrder)
                /\ \A i \in DOMAIN q.calls : q.calls[i].op = ToggleOrder[i]
                /\ "users.update" \in Ops(q) =>
                     /\ q.calls[1].ok
                     /\ q.user = q.before[q.id]
                     /\ q.request = [UpdateUserRequest_default EXCEPT
                                       !.blocked = Some(~fetched)]
                /\ Succeeded(q, "users.update") =>
                     store[q.id].blocked = Some(~fetched)
                /\ Failed(q, "users.get") =>
                     /\ Len(q.calls) = 1
                     /\ Done(q)
                     /\ q.resp = into_response("NotFound")
                     /\ q.resp.status = 404
                /\ Failed(q, "users.update") =>
                     /\ Len(q.calls) = 2
                     /\ Done(q)
                     /\ q.resp = into_response("Auth0")
                     /\ q.resp.status = 502
                     /\ store = q.before

C16_Witness ==
    \E r \in Reqs :
        /\ Done(req[r])
        /\ req[r].route = "users::toggle_block"
        /\ req[r].before[req[r].id].blocked = None
        /\ Len(req[r].calls) = 3
        /\ Succeeded(req[r], "users.update")
        /\ req[r].request.blocked = Some(TRUE)
        /\ store[req[r].id].blocked = Some(TRUE)

----------------------------------------------------------------------------
\* C17: toggle_block is atomic with respect to concurrent requests.  When
\* two toggle_block requests for the same user, both started on the same
\* upstream record, run concurrently in any interleaving and both complete
\* successfully, the user's blocked flag ends equal to its initial value:
\* two flips, none lost.
ToggleSucceeded(q) ==
    /\ Done(q)
    /\ q.route = "users::toggle_block"
    /\ Succeeded(q, "users.get")
    /\ Succeeded(q, "users.update")
    /\ q.resp.status \in {200, 303}

C17_NoLostFlip ==
    \A id \in UserIds :
        LET a == req[1]
            b == req[2]
            initial == unwrap_or(a.before[id].blocked, FALSE)
        IN  (ToggleSucceeded(a) /\ ToggleSucceeded(b)
               /\ a.id = id /\ b.id = id /\ a.before = b.before) =>
                unwrap_or(store[id].blocked, FALSE) = initial

----------------------------------------------------------------------------
\* C18: the monolithic handlers of main.rs and the modular handlers of
\* routes/ are observationally equivalent.  For the same request and the
\* same upstream outcomes, create_user and users::create, update_user and
\* users::update, delete_user and users::delete, list_users and users::list
\* issue the same sequence of upstream calls and return a response of the
\* same kind and status, and list_users shows the page count of
\* helpers::total_pages.  (Responses that are the 500 of a template failure
\* are left out on both sides.)
MonolithOf(route) ==
    CASE route = "users::create" -> "main::create_user"
      [] route = "users::update" -> "main::update_user"
      [] route = "users::delete" -> "main::delete_user"
      [] route = "users::list" -> "main::list_users"
      [] OTHER -> "none"

CallOps(q) == [i \in DOMAIN q.calls |-> q.calls[i].op]

\* the operations both requests called had the same outcome
SameOutcomes(a, b) ==
    /\ \A op \in Ops(a) \cap Ops(b) : Succeeded(a, op) <=> Succeeded(b, op)
    /\ "users.list" \in Ops(a) \cap Ops(b) => a.users = b.users

C18_MonolithEquivalent ==
    LET m == req[1]
        o == req[2]
    IN  (Done(m) /\ Done(o) /\ o.route = MonolithOf(m.route)
           /\ SameOutcomes(m, o)
           /\ ~TemplateFailed(m)
           /\ o.resp # main_template_response(NoView, FALSE)) =>
            /\ CallOps(m) = CallOps(o)
            /\ m.resp.kind = o.resp.kind
            /\ m.resp.status = o.resp.status
            /\ m.route = "users::list" =>
                 m.resp.view.total_pages = o.resp.view.total_pages

====
